---- MODULE Spec2Model ----
(***************************************************************************)
(* Model of the cpythonwrapper kernels (cpp_functions.cpp) and of their    *)
(* pybind11 benchmark wrappers (pybind_wrapper.cpp).                        *)
(*                                                                         *)
(* Five specifications share the variables:                                 *)
(*   Spec        the memoized Fibonacci kernel and its static cache, under  *)
(*               any sequence of top-level calls, one statement per step;   *)
(*   SpecTwice   the same machine driven from the empty cache by two        *)
(*               consecutive calls with one argument;                       *)
(*   SpecKernels the stateless kernels and the benchmark wrappers, each     *)
(*               applied to an input drawn by Init.                         *)
(*   SpecConcurrent  the memoized Fibonacci kernel called by several        *)
(*               threads at once, one access to the cache per step;         *)
(*   SpecWidth   the two sum-of-squares kernels with integers of a width    *)
(*               drawn by Init.                                             *)
(* The cache memo is a sequence: slot i of the C++ vector is its element    *)
(* i+1.  The other vectors are functions on 0..size-1.  Arguments are the   *)
(* non-negative integers of the kernels' contract; TLC's integers are 32    *)
(* bits wide and TLC stops with an error on overflow, so no value of the    *)
(* model exceeds an int, nor a long long.                                   *)
(***************************************************************************)
EXTENDS Integers, Sequences, FiniteSets, TLC

VARIABLES
    memo,    \* static std::vector<long long> memo of fibonacci_memoized
    wcount,  \* ghost: number of assignments memo[i] = ... made to each slot
    stack,   \* activation records of fibonacci_memoized, outermost first
    order,   \* which operand of line 154 the build evaluates first (1 or 2)
    top,     \* ghost: the current or last top-level call and its outcome
    log,     \* ghost: the top-level calls completed so far (SpecTwice only)
    req,     \* the call Python makes into the module (SpecKernels only)
    loc,     \* locals of the benchmark lambda that serves req
    out,     \* the value handed back to Python for req
    threads, \* activation records of each concurrent caller (SpecConcurrent)
    hazard,  \* ghost: the conflicting accesses made so far (SpecConcurrent)
    width    \* number of bits of a long long in the build (varied by SpecWidth)

vars ==
    <<memo, wcount, stack, order, top, log, req, loc, out, threads, hazard, width>>

fibVars == <<memo, wcount, stack, order, top>>
kernelVars == <<req, loc, out>>
concVars == <<threads, hazard>>

----------------------------------------------------------------------------
(* Bounds of the model.                                                     *)

\* largest argument of fibonacci_memoized and fibonacci_recursive
MaxN == 30
\* largest argument of sum_of_squares and sum_of_squares_optimized
MaxSumN == 100
\* largest limit of prime_count and prime_count_optimized
MaxLimit == 100
\* largest size of matrix_multiplication
MaxSize == 4
\* largest iteration count handed to a benchmark wrapper
MaxIter == 3
\* largest input handed to a benchmark wrapper
MaxBenchN == 6
\* largest elapsed time, in nanoseconds, the clock can report
MaxNanos == 1
\* number of callers that run fibonacci_memoized concurrently
NumCallers == 2
\* largest argument a concurrent caller passes
MaxConcN == 3
\* largest number of assignments followed for one slot under concurrency
MaxWrites == 2

\* smallest and largest number of bits of a long long SpecWidth models
MinBits == 8
MaxBits == 16
\* largest argument of sum_of_squares and sum_of_squares_optimized in SpecWidth
MaxWideN == 60

\* number of bits of a long long in the build of the repository
LongLongBits == 64

----------------------------------------------------------------------------
(* The values of the ghost and wrapper variables before any call.           *)

None == "none"

\* largest is the largest argument of the top-level calls made so far
NoTop ==
    [n |-> 0, entry |-> <<>>, writes |-> 0, done |-> FALSE, result |-> 0,
     largest |-> -1]
NoReq == [fn |-> None, n |-> 0, iterations |-> 0]
NoLoc == [pc |-> None, i |-> 0, calls |-> 0, result |-> 0]
NoOut == [status |-> None, value |-> 0, oob |-> FALSE]
NoThreads == [c \in 1..NumCallers |-> <<>>]
NoHazard == [raced |-> FALSE, crashed |-> FALSE]

\* what Python receives: the value returned, or a fault of the process;
\* oob records that the value came from a read outside a vector
Returned(v, oob) == [status |-> "returned", value |-> v, oob |-> oob]
Crashed == [status |-> "crashed", value |-> 0, oob |-> TRUE]

----------------------------------------------------------------------------
(* fibonacci_recursive: cpp_functions.cpp lines 27-32.                      *)

RECURSIVE fibonacci_recursive(_)
fibonacci_recursive(n) ==
    IF n <= 1 THEN n
    ELSE fibonacci_recursive(n - 1) + fibonacci_recursive(n - 2)

----------------------------------------------------------------------------
(* fibonacci_memoized: cpp_functions.cpp lines 139-156.                     *)

\* the fill value of memo.resize(n + 1, -1) and the "unset" test of line 150
Sentinel == -1

\* a resize made on every call, without the test of line 142
NeedsResizeAlways(m, n) == TRUE

\* memo.size() <= static_cast<size_t>(n), for n >= 0
NeedsResize(m, n) == Len(m) <= n

\* a resize that reallocates without copying the old elements
ResizeLosing(m, n) == [i \in 1..(n + 1) |-> Sentinel]

\* memo.resize(n + 1, -1): the vector gets exactly n + 1 elements, the
\* first ones kept and the new ones filled with -1
Resize(m, n) ==
    IF Len(m) >= n + 1 THEN SubSeq(m, 1, n + 1)
    ELSE m \o [i \in 1..(n + 1 - Len(m)) |-> Sentinel]

\* a base case that answers 1 for every n <= 1
BaseValueOne(n) == 1

\* return n (line 147)
BaseValue(n) == n

\* a lookup that never finds a cached value
IsCachedNever(m, n) == FALSE

\* memo[n] != -1 (line 150)
IsCached(m, n) == m[n + 1] # Sentinel

\* a sum that drops the second operand
SumFirstOnly(a, b) == a

\* fibonacci_memoized(n - 1) + fibonacci_memoized(n - 2) (line 154)
SumOperands(a, b) == a + b

Frame(n) == [n |-> n, pc |-> "resize", acc |-> 0]

Depth == Len(stack)
Cur == stack[Depth]
SetCur(f) == [stack EXCEPT ![Depth] = f]
SetPc(p) == SetCur([Cur EXCEPT !.pc = p])

\* The activation on top of the stack returns v: it is popped and v goes to
\* the caller's pending sum, or to Python when the call was the outermost.
\* The first operand of SumOperands is the value of fibonacci_memoized(n - 1).
ReturnStack(v) ==
    IF Depth = 1 THEN <<>>
    ELSE LET caller == stack[Depth - 1]
             next == IF caller.pc = "wait1" THEN "second" ELSE "store"
         IN  Append(SubSeq(stack, 1, Depth - 2),
                    [caller EXCEPT !.pc = next,
                                   !.acc = IF caller.pc = "wait1"
                                           THEN v
                                           ELSE IF order = 1
                                           THEN SumOperands(caller.acc, v)
                                           ELSE SumOperands(v, caller.acc)])

ReturnTop(v) ==
    IF Depth = 1 THEN [top EXCEPT !.done = TRUE, !.result = v] ELSE top

\* Python calls fibonacci_memoized(n)
Call(n) ==
    /\ stack = <<>>
    /\ stack' = <<Frame(n)>>
    /\ top' = [n |-> n, entry |-> memo, writes |-> 0, done |-> FALSE, result |-> 0,
               largest |-> IF n > top.largest THEN n ELSE top.largest]
    /\ UNCHANGED <<memo, wcount, order>>

\* lines 142-144
ResizeStep ==
    /\ Depth > 0 /\ Cur.pc = "resize"
    /\ IF NeedsResize(memo, Cur.n)
       THEN /\ memo' = Resize(memo, Cur.n)
            /\ wcount' = wcount \o [i \in 1..(Len(memo') - Len(wcount)) |-> 0]
       ELSE UNCHANGED <<memo, wcount>>
    /\ stack' = SetPc("base")
    /\ UNCHANGED <<order, top>>

\* lines 146-148, n <= 1
BaseReturn ==
    /\ Depth > 0 /\ Cur.pc = "base" /\ Cur.n <= 1
    /\ stack' = ReturnStack(BaseValue(Cur.n))
    /\ top' = ReturnTop(BaseValue(Cur.n))
    /\ UNCHANGED <<memo, wcount, order>>

\* lines 146-148, n > 1
BaseSkip ==
    /\ Depth > 0 /\ Cur.pc = "base" /\ Cur.n > 1
    /\ stack' = SetPc("lookup")
    /\ UNCHANGED <<memo, wcount, order, top>>

\* lines 150-152, the slot is set
LookupHit ==
    /\ Depth > 0 /\ Cur.pc = "lookup" /\ IsCached(memo, Cur.n)
    /\ stack' = ReturnStack(memo[Cur.n + 1])
    /\ top' = ReturnTop(memo[Cur.n + 1])
    /\ UNCHANGED <<memo, wcount, order>>

\* lines 150-152, the slot is unset
LookupMiss ==
    /\ Depth > 0 /\ Cur.pc = "lookup" /\ ~IsCached(memo, Cur.n)
    /\ stack' = SetPc("first")
    /\ UNCHANGED <<memo, wcount, order, top>>

\* line 154, the operand the build evaluates first: the order of evaluation
\* of the operands of + is unspecified, and fixed by the build
EvalFirst ==
    /\ Depth > 0 /\ Cur.pc = "first"
    /\ stack' = Append(SetPc("wait1"), Frame(Cur.n - order))
    /\ UNCHANGED <<memo, wcount, order, top>>

\* line 154, the other operand
EvalSecond ==
    /\ Depth > 0 /\ Cur.pc = "second"
    /\ stack' = Append(SetPc("wait2"), Frame(Cur.n - (3 - order)))
    /\ UNCHANGED <<memo, wcount, order, top>>

\* line 154, the assignment memo[n] = ...
Store ==
    /\ Depth > 0 /\ Cur.pc = "store"
    /\ memo' = [memo EXCEPT ![Cur.n + 1] = Cur.acc]
    /\ wcount' = [wcount EXCEPT ![Cur.n + 1] = @ + 1]
    /\ top' = [top EXCEPT !.writes = @ + 1]
    /\ stack' = SetPc("return")
    /\ UNCHANGED order

\* line 155
Return ==
    /\ Depth > 0 /\ Cur.pc = "return"
    /\ stack' = ReturnStack(memo[Cur.n + 1])
    /\ top' = ReturnTop(memo[Cur.n + 1])
    /\ UNCHANGED <<memo, wcount, order>>

Step ==
    \/ ResizeStep
    \/ BaseReturn
    \/ BaseSkip
    \/ LookupHit
    \/ LookupMiss
    \/ EvalFirst
    \/ EvalSecond
    \/ Store
    \/ Return

FibInit ==
    /\ memo = <<>>
    /\ wcount = <<>>
    /\ stack = <<>>
    /\ order \in {1, 2}
    /\ top = NoTop

Init ==
    /\ FibInit
    /\ log = <<>>
    /\ req = NoReq
    /\ loc = NoLoc
    /\ out = NoOut
    /\ threads = NoThreads
    /\ hazard = NoHazard
    /\ width = LongLongBits

Next ==
    \/ \E n \in 0..MaxN : Call(n) /\ UNCHANGED <<log, kernelVars, concVars, width>>
    \/ Step /\ UNCHANGED <<log, kernelVars, concVars, width>>

Spec == Init /\ [][Next]_vars

----------------------------------------------------------------------------
(* The same kernel called twice in a row with one argument, from the empty  *)
(* cache (spec section 8, "calling fibonacci_memoized(20) twice").          *)

Completed == [n |-> top'.n, result |-> top'.result, writes |-> top'.writes]

FirstCall ==
    /\ log = <<>>
    /\ \E n \in 0..MaxN : Call(n)
    /\ UNCHANGED <<log, kernelVars, concVars, width>>

SecondCall ==
    /\ Len(log) = 1
    /\ Call(log[1].n)
    /\ UNCHANGED <<log, kernelVars, concVars, width>>

StepLogged ==
    /\ Step
    /\ log' = IF stack' = <<>> THEN Append(log, Completed) ELSE log
    /\ UNCHANGED <<kernelVars, concVars, width>>

NextTwice ==
    \/ FirstCall
    \/ SecondCall
    \/ StepLogged

SpecTwice == Init /\ [][NextTwice]_vars

----------------------------------------------------------------------------
(* The stateless kernels of cpp_functions.cpp.  A loop is a recursive       *)
(* operator over the record s of the variables the loop changes, one        *)
(* unfolding per pass; a std::vector<T>(k) is a function on 0..k-1.         *)

\* lines 16-19: for (i = 1; i <= n; ++i) total += (long long) i * i
RECURSIVE SumLoop(_, _)
SumLoop(s, n) ==
    IF s.i <= n
    THEN SumLoop([i |-> s.i + 1, total |-> s.total + s.i * s.i], n)
    ELSE s.total

\* lines 15-21
sum_of_squares(n) == SumLoop([i |-> 1, total |-> 0], n)

\* a closed form that divides before the last multiplication
sum_of_squares_divides_early(n) == ((n * (n + 1)) \div 6) * (2 * n + 1)

\* lines 99-103: the operands are non-negative, so / is \div
sum_of_squares_optimized(n) == (n * (n + 1) * (2 * n + 1)) \div 6

\* line 46: static_cast<int>(std::sqrt(num)), the integer part of the root
ISqrt(num) == CHOOSE r \in 0..num : r * r <= num /\ (r + 1) * (r + 1) > num

\* a trial division that stops one short of sqrt_num
RECURSIVE TrialLoopShort(_, _, _)
TrialLoopShort(i, sqrt_num, num) ==
    IF i < sqrt_num
    THEN IF num % i = 0 THEN FALSE ELSE TrialLoopShort(i + 1, sqrt_num, num)
    ELSE TRUE

\* lines 45-53: the value of is_prime when the inner loop ends or breaks
RECURSIVE TrialLoop(_, _, _)
TrialLoop(i, sqrt_num, num) ==
    IF i <= sqrt_num
    THEN IF num % i = 0 THEN FALSE ELSE TrialLoop(i + 1, sqrt_num, num)
    ELSE TRUE

\* lines 43-58: for (num = 2; num <= limit; ++num) ... if (is_prime) ++count
RECURSIVE CandidateLoop(_, _)
CandidateLoop(s, limit) ==
    IF s.num <= limit
    THEN CandidateLoop([num |-> s.num + 1,
                        count |-> IF TrialLoop(2, ISqrt(s.num), s.num)
                                  THEN s.count + 1
                                  ELSE s.count],
                       limit)
    ELSE s.count

\* lines 38-61
prime_count(limit) ==
    IF limit < 2 THEN 0 ELSE CandidateLoop([num |-> 2, count |-> 0], limit)

\* lines 119-121: for (j = i * i; j <= limit; j += i) is_prime[j] = false
RECURSIVE MarkLoop(_, _, _)
MarkLoop(s, i, limit) ==
    IF s.j <= limit
    THEN MarkLoop([j |-> s.j + i, is_prime |-> [s.is_prime EXCEPT ![s.j] = FALSE]],
                  i, limit)
    ELSE s.is_prime

\* lines 117-123: for (i = 2; i * i <= limit; ++i) if (is_prime[i]) ...
RECURSIVE SieveLoop(_, _)
SieveLoop(s, limit) ==
    IF s.i * s.i <= limit
    THEN SieveLoop([i |-> s.i + 1,
                    is_prime |-> IF s.is_prime[s.i]
                                 THEN MarkLoop([j |-> s.i * s.i,
                                                is_prime |-> s.is_prime],
                                               s.i, limit)
                                 ELSE s.is_prime],
                   limit)
    ELSE s.is_prime

\* lines 125-130: for (i = 2; i <= limit; ++i) if (is_prime[i]) ++count
RECURSIVE CountLoop(_, _, _)
CountLoop(s, is_prime, limit) ==
    IF s.i <= limit
    THEN CountLoop([i |-> s.i + 1,
                    count |-> IF is_prime[s.i] THEN s.count + 1 ELSE s.count],
                   is_prime, limit)
    ELSE s.count

\* lines 114-115: vector<bool>(limit + 1, true) with entries 0 and 1 cleared
SieveInit(limit) == [k \in 0..limit |-> k >= 2]

\* lines 109-133
prime_count_optimized(limit) ==
    IF limit < 2 THEN 0
    ELSE CountLoop([i |-> 2, count |-> 0],
                   SieveLoop([i |-> 2, is_prime |-> SieveInit(limit)], limit),
                   limit)

\* the index set of a std::vector of size elements
Index(size) == 0..(size - 1)

\* lines 69, 73-78: matrix_a[i][j] = i + j
MatrixA(size) == [i \in Index(size) |-> [j \in Index(size) |-> i + j]]

\* a second matrix without the + 1
MatrixBNoOne(size) == [i \in Index(size) |-> [j \in Index(size) |-> i * j]]

\* lines 70, 73-78: matrix_b[i][j] = i * j + 1
MatrixB(size) == [i \in Index(size) |-> [j \in Index(size) |-> i * j + 1]]

\* line 81: result(size, vector<int>(size, 0))
MatrixZero(size) == [i \in Index(size) |-> [j \in Index(size) |-> 0]]

\* lines 86-88: for (j = 0; j < size; ++j) result[i][j] += a[i][k] * b[k][j]
RECURSIVE LoopJ(_, _, _, _, _, _)
LoopJ(s, a, b, i, k, size) ==
    IF s.j < size
    THEN LoopJ([j |-> s.j + 1,
                result |-> [s.result EXCEPT ![i][s.j] = @ + a[i][k] * b[k][s.j]]],
               a, b, i, k, size)
    ELSE s.result

\* lines 85-89: for (k = 0; k < size; ++k) ...
RECURSIVE LoopK(_, _, _, _, _)
LoopK(s, a, b, i, size) ==
    IF s.k < size
    THEN LoopK([k |-> s.k + 1,
                result |-> LoopJ([j |-> 0, result |-> s.result], a, b, i, s.k, size)],
               a, b, i, size)
    ELSE s.result

\* lines 84-90: for (i = 0; i < size; ++i) ...
RECURSIVE LoopI(_, _, _, _)
LoopI(s, a, b, size) ==
    IF s.i < size
    THEN LoopI([i |-> s.i + 1,
                result |-> LoopK([k |-> 0, result |-> s.result], a, b, s.i, size)],
               a, b, size)
    ELSE s.result

\* lines 67-93
matrix_multiplication(size) ==
    LoopI([i |-> 0, result |-> MatrixZero(size)], MatrixA(size), MatrixB(size), size)

----------------------------------------------------------------------------
(* The pybind11 module: pybind_wrapper.cpp.  Init draws the call Python     *)
(* makes; a direct binding applies its kernel in one step, a benchmark      *)
(* lambda runs its loop one pass per step.                                  *)

Direct == {"sum_of_squares", "sum_of_squares_optimized", "prime_count",
           "prime_count_optimized", "matrix_multiplication"}

ScalarBench == {"benchmark_sum_of_squares", "benchmark_prime_count",
                "benchmark_fibonacci"}

MatrixBench == "benchmark_matrix_mult"

\* the arguments the model hands to each binding
Inputs(fn) ==
    CASE fn \in {"sum_of_squares", "sum_of_squares_optimized"} -> 0..MaxSumN
      [] fn \in {"prime_count", "prime_count_optimized"} -> 0..MaxLimit
      [] fn \in {"matrix_multiplication", MatrixBench} -> 0..MaxSize
      [] OTHER -> 0..MaxBenchN

\* the function each binding or lambda calls (lines 18-41, 52, 64, 76, 88)
Kernel(fn, n) ==
    CASE fn \in {"sum_of_squares", "benchmark_sum_of_squares"} -> sum_of_squares(n)
      [] fn = "sum_of_squares_optimized" -> sum_of_squares_optimized(n)
      [] fn \in {"prime_count", "benchmark_prime_count"} -> prime_count(n)
      [] fn = "prime_count_optimized" -> prime_count_optimized(n)
      [] fn = "benchmark_fibonacci" -> fibonacci_recursive(n)
      [] fn \in {"matrix_multiplication", MatrixBench} -> matrix_multiplication(n)

\* lines 50, 62, 74, 86: result before the first pass
InitialResult(fn) == IF fn = MatrixBench THEN <<>> ELSE 0

\* a loop that runs one pass too many
LoopContinuesInclusive(i, iterations) == i <= iterations

\* lines 51, 63, 75, 87: i < iterations
LoopContinues(i, iterations) == i < iterations

\* lines 55-56, 67-68, 79-80, 91-92: duration.count() / (1e9 * iterations),
\* kept as the two numbers it is computed from
AvgTime(nanos, iterations) == [nanos |-> nanos, iterations |-> iterations]

\* what an out-of-bounds read of a vector element may yield when it does
\* not fault
Garbage == {-1, 0, 7}

\* lines 18-41: a direct binding
CallDirect ==
    /\ req.fn \in Direct /\ out.status = None
    /\ out' = Returned(Kernel(req.fn, req.n), FALSE)
    /\ UNCHANGED <<req, loc>>

\* lines 49-50, 61-62, 73-74, 85-86
BenchStart ==
    /\ req.fn \in ScalarBench \cup {MatrixBench} /\ loc.pc = None
    /\ out.status = None
    /\ loc' = [pc |-> "loop", i |-> 0, calls |-> 0, result |-> InitialResult(req.fn)]
    /\ UNCHANGED <<req, out>>

\* lines 51-53, 63-65, 75-77, 87-89: one pass of the loop
BenchPass ==
    /\ loc.pc = "loop" /\ LoopContinues(loc.i, req.iterations)
    /\ loc' = [loc EXCEPT !.result = Kernel(req.fn, req.n),
                          !.i = @ + 1,
                          !.calls = @ + 1]
    /\ UNCHANGED <<req, out>>

\* lines 54-57, 66-69, 78-81: the loop is over, (result, avg_time) is returned
BenchReturn ==
    /\ loc.pc = "loop" /\ ~LoopContinues(loc.i, req.iterations)
    /\ req.fn \in ScalarBench
    /\ \E nanos \in 0..MaxNanos :
           out' = Returned(<<loc.result, AvgTime(nanos, req.iterations)>>, FALSE)
    /\ loc' = [loc EXCEPT !.pc = "done"]
    /\ UNCHANGED req

\* lines 90-93: result[0][0] with row 0 and column 0 inside the vectors
MatrixReturn ==
    /\ loc.pc = "loop" /\ ~LoopContinues(loc.i, req.iterations)
    /\ req.fn = MatrixBench
    /\ 0 \in DOMAIN loc.result /\ 0 \in DOMAIN loc.result[0]
    /\ \E nanos \in 0..MaxNanos :
           out' = Returned(<<loc.result[0][0], AvgTime(nanos, req.iterations)>>, FALSE)
    /\ loc' = [loc EXCEPT !.pc = "done"]
    /\ UNCHANGED req

\* lines 90-93: result[0][0] on a vector with no element 0, which is
\* undefined: the read faults, or yields whatever lies there
MatrixReturnOutOfBounds ==
    /\ loc.pc = "loop" /\ ~LoopContinues(loc.i, req.iterations)
    /\ req.fn = MatrixBench
    /\ ~(0 \in DOMAIN loc.result)
    /\ \/ out' = Crashed
       \/ \E nanos \in 0..MaxNanos, v \in Garbage :
              out' = Returned(<<v, AvgTime(nanos, req.iterations)>>, TRUE)
    /\ loc' = [loc EXCEPT !.pc = "done"]
    /\ UNCHANGED req

InitKernels ==
    /\ memo = <<>> /\ wcount = <<>> /\ stack = <<>> /\ order = 1 /\ top = NoTop
    /\ log = <<>>
    /\ \E fn \in Direct \cup ScalarBench \cup {MatrixBench} :
       \E n \in Inputs(fn) :
       \E iterations \in 0..MaxIter :
           /\ fn \in Direct => iterations = 1
           /\ req = [fn |-> fn, n |-> n, iterations |-> iterations]
    /\ loc = NoLoc
    /\ out = NoOut
    /\ threads = NoThreads
    /\ hazard = NoHazard
    /\ width = LongLongBits

NextKernels ==
    \/ CallDirect /\ UNCHANGED <<fibVars, log, concVars, width>>
    \/ BenchStart /\ UNCHANGED <<fibVars, log, concVars, width>>
    \/ BenchPass /\ UNCHANGED <<fibVars, log, concVars, width>>
    \/ BenchReturn /\ UNCHANGED <<fibVars, log, concVars, width>>
    \/ MatrixReturn /\ UNCHANGED <<fibVars, log, concVars, width>>
    \/ MatrixReturnOutOfBounds /\ UNCHANGED <<fibVars, log, concVars, width>>

SpecKernels == InitKernels /\ [][NextKernels]_vars

----------------------------------------------------------------------------
(* fibonacci_memoized called by several threads at once: cpp_functions.cpp  *)
(* lines 139-156 take no lock, so the statements of the callers interleave  *)
(* on the one static vector.  Each access to the vector is a step; a resize *)
(* and an assignment memo[n] = ... take two steps, a caller being in the    *)
(* middle of them in between.  An access that conflicts with one in         *)
(* progress is a data race (undefined behaviour): it is recorded in hazard  *)
(* and has any of the outcomes listed with the step.                        *)

Callers == 1..NumCallers

TDepth(c) == Len(threads[c])
TCur(c) == threads[c][TDepth(c)]
At(c, p) == TDepth(c) > 0 /\ TCur(c).pc = p
TSet(c, st) == [threads EXCEPT ![c] = st]
TSetPc(c, p) ==
    TSet(c, [threads[c] EXCEPT ![TDepth(c)] = [TCur(c) EXCEPT !.pc = p]])

\* c is inside memo.resize(n + 1, -1) (line 143)
Growing(c) == At(c, "growing")
\* c is inside the assignment to memo[i] (line 154)
Storing(c, i) == At(c, "storing") /\ TCur(c).n = i

\* the activation on top of c's stack returns v (as ReturnStack)
TReturn(c, v) ==
    IF TDepth(c) = 1 THEN TSet(c, <<>>)
    ELSE LET st == threads[c]
             caller == st[TDepth(c) - 1]
             next == IF caller.pc = "wait1" THEN "second" ELSE "store"
         IN  TSet(c, Append(SubSeq(st, 1, TDepth(c) - 2),
                    [caller EXCEPT !.pc = next,
                                   !.acc = IF caller.pc = "wait1"
                                           THEN v
                                           ELSE IF order = 1
                                           THEN SumOperands(caller.acc, v)
                                           ELSE SumOperands(v, caller.acc)]))

\* a caller's read of memo.size() while another caller is resizing
SizeRace(c) == \E d \in Callers \ {c} : Growing(d)

\* what memo.size() can give c: the size, or under a race the size another
\* caller's resize is about to install
SizesRead(c) ==
    {Len(memo)} \cup {TCur(d).n + 1 : d \in {e \in Callers \ {c} : Growing(e)}}

\* a caller's read of memo[i] while another caller is resizing the vector or
\* assigning that slot
SlotRace(c, i) == \E d \in Callers \ {c} : Growing(d) \/ Storing(d, i)

\* what memo[i] can give c: the slot; under a race also the value being
\* assigned or an arbitrary one; outside the vector an arbitrary one
ValuesRead(c, i) ==
    IF i >= Len(memo) THEN Garbage
    ELSE IF SlotRace(c, i)
    THEN {memo[i + 1]} \cup Garbage
         \cup {TCur(d).acc : d \in {e \in Callers \ {c} : Storing(e, i)}}
    ELSE {memo[i + 1]}

\* a read that may fault: outside the vector, or of storage being reallocated
MayFault(c, i) == i >= Len(memo) \/ \E d \in Callers \ {c} : Growing(d)

Racing(b) == [hazard EXCEPT !.raced = @ \/ b]

\* thread c calls fibonacci_memoized(n)
ConcCall(c, n) ==
    /\ ~hazard.crashed /\ threads[c] = <<>>
    /\ threads' = TSet(c, <<Frame(n)>>)
    /\ UNCHANGED <<memo, wcount, hazard>>

\* line 142: the test of memo.size()
ConcSizeTest(c) ==
    /\ ~hazard.crashed /\ At(c, "resize")
    /\ \E size \in SizesRead(c) :
           threads' = TSetPc(c, IF size <= TCur(c).n THEN "growing" ELSE "base")
    /\ hazard' = Racing(SizeRace(c))
    /\ UNCHANGED <<memo, wcount>>

\* line 143: memo.resize(n + 1, -1) completes
ConcResize(c) ==
    /\ ~hazard.crashed /\ Growing(c)
    /\ memo' = Resize(memo, TCur(c).n)
    /\ wcount' = IF Len(memo') <= Len(wcount)
                 THEN SubSeq(wcount, 1, Len(memo'))
                 ELSE wcount \o [i \in 1..(Len(memo') - Len(wcount)) |-> 0]
    /\ threads' = TSetPc(c, "base")
    /\ UNCHANGED hazard

\* lines 146-148, n <= 1
ConcBaseReturn(c) ==
    /\ ~hazard.crashed /\ At(c, "base") /\ TCur(c).n <= 1
    /\ threads' = TReturn(c, BaseValue(TCur(c).n))
    /\ UNCHANGED <<memo, wcount, hazard>>

\* lines 146-148, n > 1
ConcBaseSkip(c) ==
    /\ ~hazard.crashed /\ At(c, "base") /\ TCur(c).n > 1
    /\ threads' = TSetPc(c, "lookup")
    /\ UNCHANGED <<memo, wcount, hazard>>

\* lines 150-152: the read of memo[n]; a set value is returned
ConcLookup(c) ==
    /\ ~hazard.crashed /\ At(c, "lookup")
    /\ \E v \in ValuesRead(c, TCur(c).n) :
           threads' = IF v # Sentinel THEN TReturn(c, v) ELSE TSetPc(c, "first")
    /\ hazard' = Racing(SlotRace(c, TCur(c).n))
    /\ UNCHANGED <<memo, wcount>>

\* line 154, the operand evaluated first
ConcEvalFirst(c) ==
    /\ ~hazard.crashed /\ At(c, "first")
    /\ threads' = TSet(c, Append(TSetPc(c, "wait1")[c], Frame(TCur(c).n - order)))
    /\ UNCHANGED <<memo, wcount, hazard>>

\* line 154, the other operand
ConcEvalSecond(c) ==
    /\ ~hazard.crashed /\ At(c, "second")
    /\ threads' = TSet(c, Append(TSetPc(c, "wait2")[c],
                                 Frame(TCur(c).n - (3 - order))))
    /\ UNCHANGED <<memo, wcount, hazard>>

\* line 154: the assignment memo[n] = ... begins
ConcStoreBegin(c) ==
    /\ ~hazard.crashed /\ At(c, "store")
    /\ threads' = TSetPc(c, "storing")
    /\ UNCHANGED <<memo, wcount, hazard>>

\* line 154: the assignment completes; outside the vector (another caller
\* has shrunk it) the write lands nowhere the program reads
ConcStore(c) ==
    /\ ~hazard.crashed /\ At(c, "storing")
    /\ LET i == TCur(c).n
       IN  IF i < Len(memo)
           THEN /\ wcount[i + 1] < MaxWrites
                /\ memo' = [memo EXCEPT ![i + 1] = TCur(c).acc]
                /\ wcount' = [wcount EXCEPT ![i + 1] = @ + 1]
           ELSE UNCHANGED <<memo, wcount>>
    /\ threads' = TSetPc(c, "return")
    /\ UNCHANGED hazard

\* line 155: return memo[n], a second read of the slot
ConcReturn(c) ==
    /\ ~hazard.crashed /\ At(c, "return")
    /\ \E v \in ValuesRead(c, TCur(c).n) : threads' = TReturn(c, v)
    /\ hazard' = Racing(SlotRace(c, TCur(c).n))
    /\ UNCHANGED <<memo, wcount>>

\* a read of memo[n] (line 150 or 155) faults and the process dies
ConcFault(c) ==
    /\ ~hazard.crashed /\ (At(c, "lookup") \/ At(c, "return"))
    /\ MayFault(c, TCur(c).n)
    /\ hazard' = [Racing(SlotRace(c, TCur(c).n)) EXCEPT !.crashed = TRUE]
    /\ UNCHANGED <<memo, wcount, threads>>

ConcStep(c) ==
    \/ ConcSizeTest(c)
    \/ ConcResize(c)
    \/ ConcBaseReturn(c)
    \/ ConcBaseSkip(c)
    \/ ConcLookup(c)
    \/ ConcEvalFirst(c)
    \/ ConcEvalSecond(c)
    \/ ConcStoreBegin(c)
    \/ ConcStore(c)
    \/ ConcReturn(c)
    \/ ConcFault(c)

seqVars == <<stack, top, order, log, kernelVars, width>>

NextConcurrent ==
    \/ \E c \in Callers : \E n \in 0..MaxConcN : ConcCall(c, n) /\ UNCHANGED seqVars
    \/ \E c \in Callers : ConcStep(c) /\ UNCHANGED seqVars

SpecConcurrent == Init /\ [][NextConcurrent]_vars

----------------------------------------------------------------------------
(* sum_of_squares and sum_of_squares_optimized with integers of a width:    *)
(* cpp_functions.cpp lines 15-21 and 99-103.  A long long has width bits    *)
(* and an int half as many (64 and 32 in the build of the repository); the  *)
(* model runs the two kernels at widths TLC can count in.  An overflow of   *)
(* a signed operation is undefined behaviour: the build may wrap the value, *)
(* produce an arbitrary one, or trap.                                       *)

MaxOf(w) == 2 ^ (w - 1) - 1
MinOf(w) == -(2 ^ (w - 1))
Fits(v, w) == MinOf(w) <= v /\ v <= MaxOf(w)

\* the value of w bits a two's complement machine keeps of v
Wrap(v, w) == ((v + 2 ^ (w - 1)) % (2 ^ w)) - 2 ^ (w - 1)

\* C++ integer division, which truncates toward zero
DivTrunc(a, b) == IF a >= 0 THEN a \div b ELSE -((-a) \div b)

Trapped == [status |-> "crashed", value |-> 0, oob |-> FALSE]

\* what a signed computation whose exact value is v hands on, at w bits
SignedOutcomes(v, w) ==
    IF Fits(v, w) THEN {v} ELSE {Wrap(v, w)} \cup Garbage

\* ln * (ln + 1) * (2 * ln + 1) (line 102), exact
Product(n) == n * (n + 1) * (2 * n + 1)

\* lines 15-21 at w bits: the running total only grows, so the loop
\* overflows exactly when its last total does not fit
WideSumOfSquares(n, w) ==
    {Returned(t, FALSE) : t \in SignedOutcomes(sum_of_squares(n), w)}
    \cup (IF Fits(sum_of_squares(n), w) THEN {} ELSE {Trapped})

\* lines 99-103 at w bits: the product is formed, then divided by 6
WideOptimized(n, w) ==
    {Returned(DivTrunc(p, 6), FALSE) : p \in SignedOutcomes(Product(n), w)}
    \cup (IF Fits(Product(n), w) THEN {} ELSE {Trapped})

WideKernels == {"sum_of_squares", "sum_of_squares_optimized"}

\* Python calls sum_of_squares(n)
WideCallLoop ==
    /\ req.fn = "sum_of_squares" /\ out = NoOut
    /\ out' \in WideSumOfSquares(req.n, width)
    /\ UNCHANGED <<req, loc>>

\* Python calls sum_of_squares_optimized(n)
WideCallOptimized ==
    /\ req.fn = "sum_of_squares_optimized" /\ out = NoOut
    /\ out' \in WideOptimized(req.n, width)
    /\ UNCHANGED <<req, loc>>

InitWidth ==
    /\ memo = <<>> /\ wcount = <<>> /\ stack = <<>> /\ order = 1 /\ top = NoTop
    /\ log = <<>>
    /\ threads = NoThreads
    /\ hazard = NoHazard
    /\ width \in MinBits..MaxBits
    /\ \E fn \in WideKernels :
       \E n \in 0..MaxWideN :
           /\ n <= MaxOf(width \div 2)
           /\ req = [fn |-> fn, n |-> n, iterations |-> 1]
    /\ loc = NoLoc
    /\ out = NoOut

NextWidth ==
    \/ WideCallLoop /\ UNCHANGED <<fibVars, log, concVars, width>>
    \/ WideCallOptimized /\ UNCHANGED <<fibVars, log, concVars, width>>

SpecWidth == InitWidth /\ [][NextWidth]_vars

----------------------------------------------------------------------------
(* Reference values.                                                        *)

\* The Fibonacci sequence F(0) = 0, F(1) = 1, F(k+2) = F(k+1) + F(k), by
\* forward iteration over the pair (F(k), F(k+1)).
RECURSIVE FibFrom(_, _, _)
FibFrom(k, a, b) == IF k = 0 THEN a ELSE FibFrom(k - 1, b, a + b)

F(n) == FibFrom(n, 0, 1)

\* fibonacci_recursive tabulated over the arguments of the model
RecursiveTable == [n \in 0..MaxN |-> fibonacci_recursive(n)]

Max(a, b) == IF a >= b THEN a ELSE b

\* the number of primes p <= limit, a prime having no divisor in 2..p-1
PrimesUpTo(limit) ==
    Cardinality({p \in 2..limit : \A d \in 2..(p - 1) : p % d # 0})

\* sum over k in 0..n-1 of a[i][k] * b[k][j]
RECURSIVE Dot(_, _, _, _, _)
Dot(a, b, i, j, n) ==
    IF n = 0 THEN 0 ELSE Dot(a, b, i, j, n - 1) + a[i][n - 1] * b[n - 1][j]

\* the product of a and b cell by cell: the textbook order i, j, k
TextbookProduct(a, b, size) ==
    [i \in Index(size) |-> [j \in Index(size) |-> Dot(a, b, i, j, size)]]

\* sum over k in 0..n-1 of (i + k) * (k * j + 1)
RECURSIVE EntrySum(_, _, _)
EntrySum(i, j, n) ==
    IF n = 0 THEN 0
    ELSE EntrySum(i, j, n - 1) + (i + (n - 1)) * ((n - 1) * j + 1)

\* the indices, from 1, of the sequence that models the cache
Slots == 1..Len(memo)

----------------------------------------------------------------------------
(* Claims about fibonacci_memoized.                                         *)

\* C1: whatever the earlier calls left in the cache, a completed top-level
\* call fibonacci_memoized(n) has returned fibonacci_recursive(n), and both
\* are the Fibonacci number F(n).
C1_MemoizedEqualsRecursive ==
    top.done =>
        /\ top.result = RecursiveTable[top.n]
        /\ top.result = F(top.n)
        /\ RecursiveTable[top.n] = F(top.n)

\* C1 witness: a call answered on a cache that earlier calls had filled
\* beyond the argument.
C1_Witness ==
    /\ top.done /\ top.n >= 5 /\ top.writes = 0
    /\ Len(top.entry) > top.n + 1
    /\ top.result = F(top.n)

\* C2: every slot of the cache is the sentinel or F(i), no slot is assigned
\* twice, and no step changes a slot that is set.
C2_SlotsExactWrittenOnce ==
    /\ [](\A i \in Slots :
            /\ memo[i] = Sentinel \/ memo[i] = F(i - 1)
            /\ wcount[i] <= 1)
    /\ [][\A i \in Slots :
            memo[i] # Sentinel =>
                /\ i <= Len(memo')
                /\ memo'[i] = memo[i]
                /\ wcount'[i] = wcount[i]]_vars

\* C2 witness: a later call has run over slots set by an earlier one.
C2_Witness ==
    /\ top.done /\ top.writes > 0
    /\ Len(top.entry) > 3 /\ top.entry[4] # Sentinel
    /\ memo[4] = 2 /\ wcount[4] = 1

\* C3: from the empty cache, two consecutive calls with the same n >= 2
\* return the same value and the second assigns strictly fewer slots.
C3_SecondCallWritesLess ==
    (Len(log) = 2 /\ log[1].n >= 2) =>
        /\ log[1].n = log[2].n
        /\ log[1].result = log[2].result
        /\ log[2].writes < log[1].writes

\* C3 witness: both calls are done, the first assigned n - 1 slots, the
\* second none.
C3_Witness ==
    /\ Len(log) = 2 /\ log[1].n >= 2
    /\ log[1].writes = log[1].n - 1
    /\ log[2].writes = 0

\* C4 as stated: a call with n <= 1 returns n and leaves the cache as it
\* found it, length included.
C4_BaseCallLeavesCacheUntouched ==
    (top.done /\ top.n <= 1) =>
        /\ top.result = top.n
        /\ memo = top.entry

\* C4 amended: a call with n <= 1 returns n, assigns no slot and changes no
\* slot the cache had; a cache shorter than n + 1 is grown to n + 1 slots,
\* the new ones holding the sentinel.
C4_BaseCallOnlyGrows ==
    (top.done /\ top.n <= 1) =>
        /\ top.result = top.n
        /\ top.writes = 0
        /\ Len(memo) = Max(Len(top.entry), top.n + 1)
        /\ SubSeq(memo, 1, Len(top.entry)) = top.entry
        /\ \A i \in (Len(top.entry) + 1)..Len(memo) : memo[i] = Sentinel

\* C4 witness: a call with n = 1 on the empty cache has returned and left
\* two sentinel slots.
C4_Witness ==
    /\ top.done /\ top.n = 1 /\ top.result = 1
    /\ top.entry = <<>>
    /\ memo = <<Sentinel, Sentinel>>

\* C5: no step shortens the cache or changes a slot that is set, growth
\* steps included, and after a call with argument n it has at least n + 1
\* slots.
C5_CacheOnlyGrows ==
    /\ [][/\ Len(memo') >= Len(memo)
          /\ \A i \in Slots : memo[i] # Sentinel => memo'[i] = memo[i]]_vars
    /\ [](top.done => Len(memo) >= top.n + 1)

\* C5 witness: a call has grown a cache that held set slots, and they kept
\* their values.
C5_Witness ==
    /\ top.done
    /\ Len(top.entry) >= 4 /\ top.entry[4] # Sentinel
    /\ Len(memo) > Len(top.entry)
    /\ SubSeq(memo, 1, Len(top.entry)) = top.entry

----------------------------------------------------------------------------
(* Claims about the stateless kernels and the benchmark wrappers.           *)

\* C6: for every n of the model, sum_of_squares(n) and
\* sum_of_squares_optimized(n) return the same value, and 0 for n = 0.
C6_SumOfSquaresAgree ==
    (req.fn \in {"sum_of_squares", "sum_of_squares_optimized"}
     /\ out.status = "returned") =>
        /\ out.value = sum_of_squares(req.n)
        /\ out.value = sum_of_squares_optimized(req.n)
        /\ req.n = 0 => out.value = 0

\* C6 witness: sum_of_squares(10) has returned 385.
C6_Witness ==
    /\ req.fn = "sum_of_squares" /\ req.n = 10
    /\ out.status = "returned" /\ out.value = 385

\* C7: for every limit of the model, prime_count(limit) and
\* prime_count_optimized(limit) return the number of primes <= limit, which
\* is 0 below 2 and 1 at 2.
C7_PrimeCountsAgree ==
    (req.fn \in {"prime_count", "prime_count_optimized"}
     /\ out.status = "returned") =>
        /\ out.value = prime_count(req.n)
        /\ out.value = prime_count_optimized(req.n)
        /\ out.value = PrimesUpTo(req.n)
        /\ req.n < 2 => out.value = 0
        /\ req.n = 2 => out.value = 1

\* C7 witness: the sieve has counted the 15 primes up to 49, the square of
\* a prime.
C7_Witness ==
    /\ req.fn = "prime_count_optimized" /\ req.n = 49
    /\ out.status = "returned" /\ out.value = 15

\* C8: matrix_multiplication(size) returns a size x size matrix whose cell
\* (i, j) is the sum over k of (i + k) * (k * j + 1); it is the product of A
\* and B computed in the order i, j, k; for size 3 its row 0 is 3, 8, 13.
C8_MatrixIsProduct ==
    (req.fn = "matrix_multiplication" /\ out.status = "returned") =>
        LET R == out.value
            size == req.n
            index == Index(size)
        IN  /\ DOMAIN R = index
            /\ \A i \in index : DOMAIN R[i] = index
            /\ \A i, j \in index : R[i][j] = EntrySum(i, j, size)
            /\ R = TextbookProduct(MatrixA(size), MatrixB(size), size)
            /\ size = 3 => (R[0][0] = 3 /\ R[0][1] = 8 /\ R[0][2] = 13)

\* C8 witness: matrix_multiplication(3) has returned, with 8 in row 0,
\* column 1.
C8_Witness ==
    /\ req.fn = "matrix_multiplication" /\ req.n = 3
    /\ out.status = "returned" /\ out.value[0][1] = 8

\* C9: a benchmark wrapper of a scalar kernel, given iterations >= 1, has
\* called its kernel iterations times when it returns, and the result it
\* returns is the result of the last pass, the kernel's value at n.
C9_BenchmarkReturnsKernelValue ==
    (req.fn \in ScalarBench /\ req.iterations >= 1 /\ out.status = "returned") =>
        /\ loc.calls = req.iterations
        /\ out.value[1] = loc.result
        /\ out.value[1] =
               CASE req.fn = "benchmark_sum_of_squares" -> sum_of_squares(req.n)
                 [] req.fn = "benchmark_prime_count" -> prime_count(req.n)
                 [] req.fn = "benchmark_fibonacci" -> fibonacci_recursive(req.n)

\* C9 witness: benchmark_sum_of_squares(5, 3) has returned 55 after three
\* calls.
C9_Witness ==
    /\ req.fn = "benchmark_sum_of_squares" /\ req.n = 5 /\ req.iterations = 3
    /\ out.status = "returned" /\ out.value[1] = 55 /\ loc.calls = 3

\* C10: for every size >= 0 and iterations >= 1, benchmark_matrix_mult
\* returns cell (0, 0) of matrix_multiplication(size), read inside the
\* bounds of the result.
C10_MatrixSampleInBounds ==
    (req.fn = MatrixBench /\ req.iterations >= 1 /\ out.status # None) =>
        /\ ~out.oob
        /\ out.status = "returned"
        /\ out.value[1] = matrix_multiplication(req.n)[0][0]

----------------------------------------------------------------------------
(* Claims about the shape of the cache and about who grows it.              *)

\* C13: slots 0 and 1 hold the sentinel in every state; when no call is in
\* progress the cache has len = largest + 1 slots, largest being the largest
\* argument requested so far, and every slot i with 2 <= i < len holds F(i).
C13_IdleCacheIsFilledPrefix ==
    /\ \A i \in Slots : i <= 2 => memo[i] = Sentinel
    /\ stack = <<>> =>
           /\ Len(memo) = top.largest + 1
           /\ \A i \in Slots : i >= 3 => memo[i] = F(i - 1)

\* C13 witness: after a call with argument 6 a call with a smaller argument
\* has returned, and slots 2 and 6 hold F(2) = 1 and F(6) = 8.
C13_Witness ==
    /\ stack = <<>> /\ top.done
    /\ top.largest = 6 /\ top.n < 6
    /\ Len(memo) = 7 /\ memo[3] = 1 /\ memo[7] = 8
    /\ memo[1] = Sentinel /\ memo[2] = Sentinel

\* C14: in a nested call of fibonacci_memoized the resize condition is
\* false, and the length of the cache changes only in the resize step of
\* the outermost call: from then until the outer call stores memo[n], and
\* returns, the length stays what that step made it.
C14_OnlyOutermostCallGrows ==
    /\ []((Depth > 1 /\ Cur.pc = "resize") => ~NeedsResize(memo, Cur.n))
    /\ [][Len(memo') # Len(memo) => (Depth = 1 /\ Cur.pc = "resize")]_vars
    /\ []((Depth > 0 /\ stack[1].pc # "resize") =>
              Len(memo) = IF Len(top.entry) > top.n + 1
                          THEN Len(top.entry) ELSE top.n + 1)

\* C14 witness: the outer call has grown the cache to n + 1 slots and a call
\* nested two levels below it has passed its resize test without growing it.
C14_Witness ==
    /\ Depth >= 3 /\ Cur.pc = "base" /\ Cur.n >= 2
    /\ Len(top.entry) < top.n + 1
    /\ Len(memo) = top.n + 1

----------------------------------------------------------------------------
(* Claim about concurrent callers of fibonacci_memoized.                    *)

\* C11: when two or more callers run fibonacci_memoized concurrently, every
\* slot of the cache is still assigned at most once, and no caller reads a
\* slot or the length of the cache while another caller is in the middle of
\* growing the cache or of assigning that slot.
C11_ConcurrentCallersExcluded ==
    /\ \A i \in Slots : wcount[i] <= 1
    /\ ~hazard.raced

----------------------------------------------------------------------------
(* Claim about the widths of the integers of sum_of_squares_optimized.      *)

\* C12: for every n >= 0 whose sum of squares fits in a signed integer of
\* width bits, the intermediate product n * (n + 1) * (2n + 1) of
\* sum_of_squares_optimized fits in width bits too, and the closed form
\* returns the value of the iterative sum_of_squares(n).
C12_ClosedFormNeverOverflows ==
    (req.fn = "sum_of_squares_optimized" /\ out.status # None
     /\ Fits(sum_of_squares(req.n), width)) =>
        /\ Fits(Product(req.n), width)
        /\ out.status = "returned"
        /\ out.value = sum_of_squares(req.n)

====
